---- MODULE Spec2Model ----
(***************************************************************************)
(* The ASX mining scanner (src/asx_scanner.py): the company registry, the  *)
(* deduplication of scraped records, the classification of a record, the   *)
(* quality gate, and the control flow of one run of run_daily_scan with    *)
(* its error handling.                                                     *)
(*                                                                         *)
(* A Python str is a sequence of one-character strings, so that lower(),   *)
(* len(), the substring test `in` and f-string concatenation are computed  *)
(* character by character.                                                 *)
(***************************************************************************)
EXTENDS Integers, Sequences, FiniteSets, TLC

VARIABLES
  mining_companies,        \* self.mining_companies, set by __init__
  email_configured,        \* all three of sender_email, sender_password, recipient_email are set
  announcements,           \* get_asx_announcements: what the scrapers have returned so far
  raw_announcements,       \* run_daily_scan: the deduplicated records
  idx,                     \* run_daily_scan: position of the for loop in raw_announcements
  analyzed,                \* run_daily_scan: the last value analyze_announcement returned
  analyzed_announcements,  \* run_daily_scan: the announcements that passed the quality gate
  skipped,                 \* how many records the per-record except clause has logged and skipped
  report,                  \* run_daily_scan: the generated report
  report_file,             \* the content of reports/mining_report_<date>.md
  emails,                  \* every call of send_email_report so far, with its outcome
  exc,                     \* the exception bound by `except Exception as e` in run_daily_scan
  raised,                  \* the exception that left run_daily_scan
  pc                       \* where run_daily_scan is

vars == << mining_companies, email_configured, announcements, raw_announcements, idx,
           analyzed, analyzed_announcements, skipped, report, report_file, emails,
           exc, raised, pc >>

----------------------------------------------------------------------------
(* Python strings *)

\* str.lower() on one character (ASCII letters)
LowerChar(c) ==
  CASE c = "A" -> "a" [] c = "B" -> "b" [] c = "C" -> "c" [] c = "D" -> "d"
    [] c = "E" -> "e" [] c = "F" -> "f" [] c = "G" -> "g" [] c = "H" -> "h"
    [] c = "I" -> "i" [] c = "J" -> "j" [] c = "K" -> "k" [] c = "L" -> "l"
    [] c = "M" -> "m" [] c = "N" -> "n" [] c = "O" -> "o" [] c = "P" -> "p"
    [] c = "Q" -> "q" [] c = "R" -> "r" [] c = "S" -> "s" [] c = "T" -> "t"
    [] c = "U" -> "u" [] c = "V" -> "v" [] c = "W" -> "w" [] c = "X" -> "x"
    [] c = "Y" -> "y" [] c = "Z" -> "z" [] OTHER -> c

\* s.lower()
lower(s) == [i \in 1..Len(s) |-> LowerChar(s[i])]

\* needle in hay, for two str
Contains(needle, hay) ==
  \E i \in 0..(Len(hay) - Len(needle)) :
    \A j \in 1..Len(needle) : hay[i + j] = needle[j]

\* A Python value held by a field of a scraped record: a str, or something
\* else (None), whose text is what str() and an f-string make of it.
PyStr(s) == [isstr |-> TRUE, text |-> s]
PyNone == [isstr |-> FALSE, text |-> <<"N","o","n","e">>]

\* dict.get(key, default) on a scraped record that is a mapping
get(ann, key, default) ==
  IF key \in DOMAIN ann.fields THEN ann.fields[key] ELSE default

----------------------------------------------------------------------------
(* Configuration and the company table *)

min_announcement_length == 30

StaticCompanies ==
  << [code |-> <<"B","H","P">>, name |-> <<"B","H","P"," ","G","r","o","u","p"," ","L","i","m","i","t","e","d">>, sector |-> <<"D","i","v","e","r","s","i","f","i","e","d"," ","M","e","t","a","l","s">>],
     [code |-> <<"R","I","O">>, name |-> <<"R","i","o"," ","T","i","n","t","o"," ","L","i","m","i","t","e","d">>, sector |-> <<"D","i","v","e","r","s","i","f","i","e","d"," ","M","e","t","a","l","s">>],
     [code |-> <<"F","M","G">>, name |-> <<"F","o","r","t","e","s","c","u","e"," ","M","e","t","a","l","s"," ","G","r","o","u","p"," ","L","t","d">>, sector |-> <<"I","r","o","n"," ","O","r","e">>],
     [code |-> <<"N","C","M">>, name |-> <<"N","e","w","c","r","e","s","t"," ","M","i","n","i","n","g"," ","L","i","m","i","t","e","d">>, sector |-> <<"G","o","l","d">>],
     [code |-> <<"E","V","N">>, name |-> <<"E","v","o","l","u","t","i","o","n"," ","M","i","n","i","n","g"," ","L","i","m","i","t","e","d">>, sector |-> <<"G","o","l","d">>],
     [code |-> <<"N","S","T">>, name |-> <<"N","o","r","t","h","e","r","n"," ","S","t","a","r"," ","R","e","s","o","u","r","c","e","s"," ","L","t","d">>, sector |-> <<"G","o","l","d">>],
     [code |-> <<"M","I","N">>, name |-> <<"M","i","n","e","r","a","l"," ","R","e","s","o","u","r","c","e","s"," ","L","i","m","i","t","e","d">>, sector |-> <<"D","i","v","e","r","s","i","f","i","e","d"," ","M","e","t","a","l","s">>],
     [code |-> <<"I","G","O">>, name |-> <<"I","G","O"," ","L","i","m","i","t","e","d">>, sector |-> <<"N","i","c","k","e","l","/","L","i","t","h","i","u","m">>],
     [code |-> <<"S","B","M">>, name |-> <<"S","t"," ","B","a","r","b","a","r","a"," ","L","i","m","i","t","e","d">>, sector |-> <<"G","o","l","d">>],
     [code |-> <<"R","S","G">>, name |-> <<"R","e","s","o","l","u","t","e"," ","M","i","n","i","n","g"," ","L","i","m","i","t","e","d">>, sector |-> <<"G","o","l","d">>],
     [code |-> <<"R","R","L">>, name |-> <<"R","e","g","i","s"," ","R","e","s","o","u","r","c","e","s"," ","L","i","m","i","t","e","d">>, sector |-> <<"G","o","l","d">>],
     [code |-> <<"S","A","R">>, name |-> <<"S","a","r","a","c","e","n"," ","M","i","n","e","r","a","l"," ","H","o","l","d","i","n","g","s"," ","L","i","m","i","t","e","d">>, sector |-> <<"G","o","l","d">>],
     [code |-> <<"G","O","R">>, name |-> <<"G","o","l","d"," ","R","o","a","d"," ","R","e","s","o","u","r","c","e","s"," ","L","i","m","i","t","e","d">>, sector |-> <<"G","o","l","d">>],
     [code |-> <<"D","C","N">>, name |-> <<"D","a","c","i","a","n"," ","G","o","l","d"," ","L","i","m","i","t","e","d">>, sector |-> <<"G","o","l","d">>],
     [code |-> <<"K","L","A">>, name |-> <<"K","i","r","k","l","a","n","d"," ","L","a","k","e"," ","G","o","l","d"," ","L","t","d">>, sector |-> <<"G","o","l","d">>],
     [code |-> <<"L","R","V">>, name |-> <<"L","a","r","v","o","t","t","o"," ","R","e","s","o","u","r","c","e","s"," ","L","i","m","i","t","e","d">>, sector |-> <<"G","o","l","d">>],
     [code |-> <<"T","M","R">>, name |-> <<"T","e","m","p","u","s"," ","R","e","s","o","u","r","c","e","s"," ","L","t","d">>, sector |-> <<"G","o","l","d">>],
     [code |-> <<"N","V","A">>, name |-> <<"N","o","v","a"," ","M","i","n","e","r","a","l","s"," ","L","i","m","i","t","e","d">>, sector |-> <<"G","o","l","d">>],
     [code |-> <<"P","L","S">>, name |-> <<"P","i","l","b","a","r","a"," ","M","i","n","e","r","a","l","s"," ","L","i","m","i","t","e","d">>, sector |-> <<"L","i","t","h","i","u","m">>],
     [code |-> <<"O","R","E">>, name |-> <<"O","r","o","c","o","b","r","e"," ","L","i","m","i","t","e","d">>, sector |-> <<"L","i","t","h","i","u","m">>],
     [code |-> <<"G","X","Y">>, name |-> <<"G","a","l","a","x","y"," ","R","e","s","o","u","r","c","e","s"," ","L","i","m","i","t","e","d">>, sector |-> <<"L","i","t","h","i","u","m">>],
     [code |-> <<"C","X","O">>, name |-> <<"C","o","r","e"," ","L","i","t","h","i","u","m"," ","L","t","d">>, sector |-> <<"L","i","t","h","i","u","m">>],
     [code |-> <<"L","P","D">>, name |-> <<"L","e","p","i","d","i","c","o"," ","L","t","d">>, sector |-> <<"L","i","t","h","i","u","m">>],
     [code |-> <<"A","R","I">>, name |-> <<"A","r","g","o","s","y"," ","M","i","n","e","r","a","l","s"," ","L","i","m","i","t","e","d">>, sector |-> <<"L","i","t","h","i","u","m">>],
     [code |-> <<"A","S","N">>, name |-> <<"A","n","s","o","n"," ","R","e","s","o","u","r","c","e","s"," ","L","i","m","i","t","e","d">>, sector |-> <<"L","i","t","h","i","u","m">>],
     [code |-> <<"L","T","R">>, name |-> <<"L","i","o","n","t","o","w","n"," ","R","e","s","o","u","r","c","e","s"," ","L","i","m","i","t","e","d">>, sector |-> <<"L","i","t","h","i","u","m">>],
     [code |-> <<"B","O","E">>, name |-> <<"B","o","s","s"," ","E","n","e","r","g","y"," ","L","i","m","i","t","e","d">>, sector |-> <<"U","r","a","n","i","u","m">>],
     [code |-> <<"P","E","N">>, name |-> <<"P","e","n","i","n","s","u","l","a"," ","E","n","e","r","g","y"," ","L","i","m","i","t","e","d">>, sector |-> <<"U","r","a","n","i","u","m">>],
     [code |-> <<"B","M","N">>, name |-> <<"B","a","n","n","e","r","m","a","n"," ","E","n","e","r","g","y"," ","L","t","d">>, sector |-> <<"U","r","a","n","i","u","m">>],
     [code |-> <<"D","Y","L">>, name |-> <<"D","e","e","p"," ","Y","e","l","l","o","w"," ","L","i","m","i","t","e","d">>, sector |-> <<"U","r","a","n","i","u","m">>],
     [code |-> <<"L","O","T">>, name |-> <<"L","o","t","u","s"," ","R","e","s","o","u","r","c","e","s"," ","L","i","m","i","t","e","d">>, sector |-> <<"U","r","a","n","i","u","m">>],
     [code |-> <<"A","Z","S">>, name |-> <<"A","z","u","r","e"," ","M","i","n","e","r","a","l","s"," ","L","i","m","i","t","e","d">>, sector |-> <<"C","o","p","p","e","r">>],
     [code |-> <<"C","6","C">>, name |-> <<"C","o","p","p","e","r"," ","M","o","u","n","t","a","i","n"," ","M","i","n","i","n","g"," ","C","o","r","p","o","r","a","t","i","o","n">>, sector |-> <<"C","o","p","p","e","r">>],
     [code |-> <<"2","9","M">>, name |-> <<"2","9","M","e","t","a","l","s"," ","L","i","m","i","t","e","d">>, sector |-> <<"C","o","p","p","e","r">>],
     [code |-> <<"S","F","R">>, name |-> <<"S","a","n","d","f","i","r","e"," ","R","e","s","o","u","r","c","e","s"," ","L","i","m","i","t","e","d">>, sector |-> <<"C","o","p","p","e","r">>],
     [code |-> <<"G","R","R">>, name |-> <<"G","r","a","n","g","e"," ","R","e","s","o","u","r","c","e","s"," ","L","i","m","i","t","e","d">>, sector |-> <<"I","r","o","n"," ","O","r","e">>],
     [code |-> <<"A","G","O">>, name |-> <<"A","t","l","a","s"," ","I","r","o","n"," ","L","i","m","i","t","e","d">>, sector |-> <<"I","r","o","n"," ","O","r","e">>],
     [code |-> <<"B","C","I">>, name |-> <<"B","C"," ","I","r","o","n"," ","L","i","m","i","t","e","d">>, sector |-> <<"I","r","o","n"," ","O","r","e">>],
     [code |-> <<"F","R","I">>, name |-> <<"F","o","r","t","e","s","c","u","e"," ","F","u","t","u","r","e"," ","I","n","d","u","s","t","r","i","e","s">>, sector |-> <<"I","r","o","n"," ","O","r","e">>],
     [code |-> <<"M","L","S">>, name |-> <<"M","e","t","a","l","s"," ","X"," ","L","i","m","i","t","e","d">>, sector |-> <<"T","i","n">>],
     [code |-> <<"V","M","G">>, name |-> <<"V","a","n","M","a","g"," ","L","i","m","i","t","e","d">>, sector |-> <<"V","a","n","a","d","i","u","m">>],
     [code |-> <<"F","Y","I">>, name |-> <<"F","Y","I"," ","R","e","s","o","u","r","c","e","s"," ","L","i","m","i","t","e","d">>, sector |-> <<"A","l","u","m","i","n","a">>],
     [code |-> <<"S","Y","R">>, name |-> <<"S","y","r","a","h"," ","R","e","s","o","u","r","c","e","s"," ","L","i","m","i","t","e","d">>, sector |-> <<"G","r","a","p","h","i","t","e">>],
     [code |-> <<"T","N","G">>, name |-> <<"T","N","G"," ","L","i","m","i","t","e","d">>, sector |-> <<"T","i","t","a","n","i","u","m">>],
     [code |-> <<"L","Y","C">>, name |-> <<"L","y","n","a","s"," ","R","a","r","e"," ","E","a","r","t","h","s"," ","L","t","d">>, sector |-> <<"R","a","r","e"," ","E","a","r","t","h","s">>],
     [code |-> <<"A","R","U">>, name |-> <<"A","r","a","f","u","r","a"," ","R","e","s","o","u","r","c","e","s"," ","L","i","m","i","t","e","d">>, sector |-> <<"R","a","r","e"," ","E","a","r","t","h","s">>],
     [code |-> <<"I","X","R">>, name |-> <<"I","o","n","i","c"," ","R","a","r","e"," ","E","a","r","t","h","s"," ","L","i","m","i","t","e","d">>, sector |-> <<"R","a","r","e"," ","E","a","r","t","h","s">>],
     [code |-> <<"W","H","C">>, name |-> <<"W","h","i","t","e","h","a","v","e","n"," ","C","o","a","l"," ","L","i","m","i","t","e","d">>, sector |-> <<"C","o","a","l">>],
     [code |-> <<"N","H","C">>, name |-> <<"N","e","w"," ","H","o","p","e"," ","C","o","r","p","o","r","a","t","i","o","n"," ","L","i","m","i","t","e","d">>, sector |-> <<"C","o","a","l">>],
     [code |-> <<"W","D","S">>, name |-> <<"W","o","o","d","s","i","d","e"," ","E","n","e","r","g","y"," ","G","r","o","u","p"," ","L","t","d">>, sector |-> <<"E","n","e","r","g","y">>],
     [code |-> <<"S","T","O">>, name |-> <<"S","a","n","t","o","s"," ","L","i","m","i","t","e","d">>, sector |-> <<"E","n","e","r","g","y">>],
     [code |-> <<"O","R","G">>, name |-> <<"O","r","i","g","i","n"," ","E","n","e","r","g","y"," ","L","i","m","i","t","e","d">>, sector |-> <<"E","n","e","r","g","y">>],
     [code |-> <<"E","X","R">>, name |-> <<"E","l","i","x","i","r"," ","E","n","e","r","g","y"," ","L","i","m","i","t","e","d">>, sector |-> <<"G","a","s">>] >>

positive_keywords ==
  << <<"i","n","c","r","e","a","s","e">>,
     <<"g","r","o","w","t","h">>,
     <<"s","t","r","o","n","g">>,
     <<"s","u","c","c","e","s","s","f","u","l">>,
     <<"p","o","s","i","t","i","v","e">>,
     <<"u","p","g","r","a","d","e">>,
     <<"e","x","p","a","n","s","i","o","n">>,
     <<"d","i","s","c","o","v","e","r","y">>,
     <<"h","i","g","h","-","g","r","a","d","e">>,
     <<"s","i","g","n","i","f","i","c","a","n","t">>,
     <<"e","x","c","e","l","l","e","n","t">>,
     <<"b","r","e","a","k","t","h","r","o","u","g","h">>,
     <<"a","c","h","i","e","v","e","m","e","n","t">>,
     <<"r","e","c","o","r","d">>,
     <<"b","o","o","s","t">>,
     <<"p","r","o","g","r","e","s","s">> >>

negative_keywords ==
  << <<"d","e","c","r","e","a","s","e">>,
     <<"d","e","c","l","i","n","e">>,
     <<"l","o","s","s">>,
     <<"s","u","s","p","e","n","s","i","o","n">>,
     <<"d","e","l","a","y">>,
     <<"d","o","w","n","g","r","a","d","e">>,
     <<"c","l","o","s","u","r","e">>,
     <<"r","e","d","u","c","t","i","o","n">>,
     <<"c","u","t">>,
     <<"l","o","w","e","r">>,
     <<"d","i","s","a","p","p","o","i","n","t","i","n","g">>,
     <<"c","o","n","c","e","r","n">>,
     <<"i","s","s","u","e">>,
     <<"p","r","o","b","l","e","m">>,
     <<"h","a","l","t">>,
     <<"s","t","o","p">> >>

keywords ==
  << <<"d","r","i","l","l","i","n","g">>,
     <<"r","e","s","o","u","r","c","e">>,
     <<"r","e","s","e","r","v","e">>,
     <<"p","r","o","d","u","c","t","i","o","n">>,
     <<"e","x","p","l","o","r","a","t","i","o","n">>,
     <<"a","c","q","u","i","s","i","t","i","o","n">>,
     <<"m","e","r","g","e","r">>,
     <<"f","e","a","s","i","b","i","l","i","t","y">>,
     <<"o","f","f","t","a","k","e">>,
     <<"p","a","r","t","n","e","r","s","h","i","p">>,
     <<"u","p","g","r","a","d","e">>,
     <<"e","x","p","a","n","s","i","o","n">>,
     <<"m","i","n","e">>,
     <<"o","p","e","r","a","t","i","o","n">>,
     <<"p","r","o","j","e","c","t">>,
     <<"d","e","v","e","l","o","p","m","e","n","t">> >>

\* the content of mining_companies.json in the runs explored: an entry for a
\* code the static table already has, and an entry for a new code
AdditionalCompanies ==
  << [code |-> <<"B","H","P">>, name |-> <<"B","H","P"," ","B","i","l","l","i","t","o","n">>, sector |-> <<"I","r","o","n"," ","O","r","e">>],
     [code |-> <<"L","K","E">>, name |-> <<"L","a","k","e"," ","R","e","s","o","u","r","c","e","s">>, sector |-> <<"L","i","t","h","i","u","m">>],
     [code |-> <<"L","K","E">>, name |-> <<"L","a","k","e"," ","R","e","s","o","u","r","c","e","s"," ","N","L">>, sector |-> <<"L","i","t","h","i","u","m">>] >>

\* mining_companies.json as load_mining_companies finds it
CompanyFiles == {"absent", "malformed", "valid"}

load_mining_companies(file) ==
  IF file = "valid" THEN StaticCompanies \o AdditionalCompanies
  ELSE StaticCompanies

\* Python's None, where a variable holds no value yet or a lookup finds nothing
None == [kind |-> "none"]

RECURSIVE LastMatch(_, _, _)
\* FirstMatch with the loop going on to the last entry of the code
LastMatch(companies, company_code, i) ==
  IF i > Len(companies) THEN None
  ELSE LET later == LastMatch(companies, company_code, i + 1)
       IN IF later # None THEN later
          ELSE IF PyStr(companies[i].code) = company_code THEN companies[i]
          ELSE None

RECURSIVE FirstMatch(_, _, _)
FirstMatch(companies, company_code, i) ==
  IF i > Len(companies) THEN None
  ELSE IF PyStr(companies[i].code) = company_code THEN companies[i]
  ELSE FirstMatch(companies, company_code, i + 1)

\* get_company_info(company_code): company_code is a Python value
get_company_info(company_code) == FirstMatch(mining_companies, company_code, 1)

----------------------------------------------------------------------------
(* get_asx_announcements: deduplication *)

\* key = f"{ann.get('company_code', '')}-{ann.get('title', '')}"
DedupKey(ann) ==
  get(ann, "company_code", PyStr(<<>>)).text \o <<"-">> \o get(ann, "title", PyStr(<<>>)).text

RECURSIVE DedupLoopForgetful(_, _, _)
\* DedupLoop with a seen-set that forgets a key when its duplicate comes
DedupLoopForgetful(anns, seen, unique_announcements) ==
  IF anns = <<>> THEN unique_announcements
  ELSE LET ann == Head(anns)
           key == DedupKey(ann)
       IN IF key \notin seen
          THEN DedupLoopForgetful(Tail(anns), seen \cup {key},
                                  Append(unique_announcements, ann))
          ELSE DedupLoopForgetful(Tail(anns), seen \ {key}, unique_announcements)

RECURSIVE DedupLoop(_, _, _)
DedupLoop(anns, seen, unique_announcements) ==
  IF anns = <<>> THEN unique_announcements
  ELSE LET ann == Head(anns)
           key == DedupKey(ann)
       IN IF key \notin seen
          THEN DedupLoop(Tail(anns), seen \cup {key}, Append(unique_announcements, ann))
          ELSE DedupLoop(Tail(anns), seen, unique_announcements)

\* the loop of lines 167-175 on a list of mappings
dedupe(anns) == DedupLoop(anns, {}, <<>>)

\* ann.get raises AttributeError on a record that is no mapping
dedupe_raises(anns) == \E i \in 1..Len(anns) : ~anns[i].ismapping

----------------------------------------------------------------------------
(* analyze_announcement *)

RECURSIVE Score(_, _)
\* sum(1 for keyword in words if keyword in title_lower)
Score(words, title_lower) ==
  IF words = <<>> THEN 0
  ELSE (IF Contains(Head(words), title_lower) THEN 1 ELSE 0) + Score(Tail(words), title_lower)

\* Sentiment with a tie going to the positive side
SentimentTieIsPositive(positive_score, negative_score) ==
  IF positive_score >= negative_score THEN "positive"
  ELSE IF negative_score > positive_score THEN "negative"
  ELSE "neutral"

Sentiment(positive_score, negative_score) ==
  IF positive_score > negative_score THEN "positive"
  ELSE IF negative_score > positive_score THEN "negative"
  ELSE "neutral"

RECURSIVE KeyPoints(_, _)
KeyPoints(words, title_lower) ==
  IF words = <<>> THEN <<>>
  ELSE (IF Contains(lower(Head(words)), title_lower)
        THEN << <<"R","e","l","a","t","e","d"," ","t","o"," ">> \o Head(words) >> ELSE <<>>)
       \o KeyPoints(Tail(words), title_lower)

\* title.lower() raises AttributeError when the title is no str
analyze_raises(announcement) == ~get(announcement, "title", PyStr(<<>>)).isstr

\* Content as `announcement.get('content') or title` would make it
ContentOrTitle(announcement, title) ==
  IF get(announcement, "content", PyStr(<<>>)) = PyStr(<<>>) THEN title
  ELSE get(announcement, "content", title)

\* content = announcement.get('content', title)
Content(announcement, title) == get(announcement, "content", title)

analyze_announcement(announcement) ==
  LET title == get(announcement, "title", PyStr(<<>>))
      content == Content(announcement, title)
      title_lower == lower(title.text)
  IN [ company_name |-> get(announcement, "company_name", PyStr(<<>>)),
       company_code |-> get(announcement, "company_code", PyStr(<<>>)),
       title |-> title,
       content |-> content,
       date |-> get(announcement, "date", PyStr(<<>>)),
       time |-> get(announcement, "time", PyStr(<<>>)),
       url |-> get(announcement, "url", PyStr(<<>>)),
       sentiment |-> Sentiment(Score(positive_keywords, title_lower),
                               Score(negative_keywords, title_lower)),
       key_points |-> KeyPoints(keywords, title_lower) ]

\* PassesGate with the boundary left out
PassesGateStrict(a) == Len(a.title.text) > min_announcement_length

\* len(analyzed.title) >= self.config['scanning']['min_announcement_length']
PassesGate(a) == Len(a.title.text) >= min_announcement_length

----------------------------------------------------------------------------
(* The records the scrapers hand over *)

Rec(f) == [ismapping |-> TRUE, fields |-> f]

RecordPool ==
  { \* a complete record: title of exactly 30 characters
    Rec([time |-> PyStr(<<"0","9",":","1","5">>), company_code |-> PyStr(<<"B","H","P">>),
         company_name |-> PyStr(<<"B","H","P"," ","G","r","o","u","p">>),
         title |-> PyStr(<<"R","e","c","o","r","d"," ","h","i","g","h","-","g","r","a","d","e"," ","g","o","l","d"," ","r","e","s","u","l","t","s">>),
         date |-> PyStr(<<"2","0","2","4","-","0","5","-","0","1">>), url |-> PyStr(<<"u","1">>),
         content |-> PyStr(<<"R","e","c","o","r","d"," ","h","i","g","h","-","g","r","a","d","e"," ","g","o","l","d"," ","r","e","s","u","l","t","s">>)]),
    \* the same code and title from another source: other time and url, no content
    Rec([time |-> PyStr(<<"1","0",":","4","0">>), company_code |-> PyStr(<<"B","H","P">>),
         company_name |-> PyStr(<<"B","H","P"," ","G","r","o","u","p">>),
         title |-> PyStr(<<"R","e","c","o","r","d"," ","h","i","g","h","-","g","r","a","d","e"," ","g","o","l","d"," ","r","e","s","u","l","t","s">>),
         date |-> PyStr(<<"2","0","2","4","-","0","5","-","0","1">>), url |-> PyStr(<<"u","2">>)]),
    \* the same title in capitals
    Rec([time |-> PyStr(<<"0","9",":","1","5">>), company_code |-> PyStr(<<"B","H","P">>),
         company_name |-> PyStr(<<"B","H","P"," ","G","r","o","u","p">>),
         title |-> PyStr(<<"R","E","C","O","R","D"," ","H","I","G","H","-","G","R","A","D","E"," ","G","O","L","D"," ","R","E","S","U","L","T","S">>),
         date |-> PyStr(<<"2","0","2","4","-","0","5","-","0","1">>), url |-> PyStr(<<"u","1">>),
         content |-> PyStr(<<"F","u","l","l"," ","t","e","x","t">>)]),
    \* two records whose codes and titles differ and hold a hyphen
    Rec([time |-> PyStr(<<"1","1",":","0","0">>), company_code |-> PyStr(<<"E","V","N","-","N","S","T">>),
         company_name |-> PyStr(<<"E","v","o","l","u","t","i","o","n"," ","M","i","n","i","n","g">>),
         title |-> PyStr(<<"m","e","r","g","e","r"," ","s","u","s","p","e","n","s","i","o","n"," ","a","n","d"," ","t","r","a","d","i","n","g"," ","h","a","l","t">>),
         date |-> PyStr(<<"2","0","2","4","-","0","5","-","0","1">>), url |-> PyStr(<<"u","1">>),
         content |-> PyStr(<<"m","e","r","g","e","r"," ","s","u","s","p","e","n","s","i","o","n"," ","a","n","d"," ","t","r","a","d","i","n","g"," ","h","a","l","t">>)]),
    Rec([time |-> PyStr(<<"1","1",":","0","5">>), company_code |-> PyStr(<<"E","V","N">>),
         company_name |-> PyStr(<<"E","v","o","l","u","t","i","o","n"," ","M","i","n","i","n","g">>),
         title |-> PyStr(<<"N","S","T","-","m","e","r","g","e","r"," ","s","u","s","p","e","n","s","i","o","n"," ","a","n","d"," ","t","r","a","d","i","n","g"," ","h","a","l","t">>),
         date |-> PyStr(<<"2","0","2","4","-","0","5","-","0","1">>), url |-> PyStr(<<"u","1">>),
         content |-> PyStr(<<"N","S","T","-","m","e","r","g","e","r"," ","s","u","s","p","e","n","s","i","o","n"," ","a","n","d"," ","t","r","a","d","i","n","g"," ","h","a","l","t">>)]),
    \* neither code nor title
    Rec([time |-> PyStr(<<"1","2",":","0","0">>)]),
    \* an empty content beside a title
    Rec([time |-> PyStr(<<"1","3",":","3","0">>), company_code |-> PyStr(<<"L","K","E">>),
         company_name |-> PyStr(<<"L","a","k","e"," ","R","e","s","o","u","r","c","e","s">>),
         title |-> PyStr(<<"S","t","o","p","e"," ","d","e","v","e","l","o","p","m","e","n","t"," ","p","r","o","g","r","e","s","s"," ","a","t"," ","M","t"," ","I","d","a">>),
         date |-> PyStr(<<"2","0","2","4","-","0","5","-","0","1">>), url |-> PyStr(<<"u","1">>),
         content |-> PyStr(<<>>)]),
    \* a title of 29 characters
    Rec([time |-> PyStr(<<"1","4",":","0","0">>), company_code |-> PyStr(<<"P","L","S">>),
         company_name |-> PyStr(<<"P","i","l","b","a","r","a"," ","M","i","n","e","r","a","l","s">>),
         title |-> PyStr(<<"M","i","n","e"," ","c","l","o","s","u","r","e"," ","a","n","d"," ","o","u","t","p","u","t","s"," ","h","a","l","t">>),
         date |-> PyStr(<<"2","0","2","4","-","0","5","-","0","1">>), url |-> PyStr(<<"u","1">>),
         content |-> PyStr(<<"M","i","n","e"," ","c","l","o","s","u","r","e"," ","a","n","d"," ","o","u","t","p","u","t","s"," ","h","a","l","t">>)]),
    \* a mapping whose title is no str
    Rec([time |-> PyStr(<<"1","5",":","0","0">>), company_code |-> PyStr(<<"F","M","G">>),
         company_name |-> PyStr(<<"F","o","r","t","e","s","c","u","e">>), title |-> PyNone,
         date |-> PyStr(<<"2","0","2","4","-","0","5","-","0","1">>), url |-> PyStr(<<"u","1">>)]),
    \* no mapping at all
    [ismapping |-> FALSE] }

\* how many records the scrapers return together in the runs explored
MaxBatch == 3

----------------------------------------------------------------------------
(* Ordering of str, as sorted() compares them *)

\* the printable ASCII characters, from chr(32) to chr(126); the double quote,
\* the backslash and the backtick, which no string of the runs explored holds,
\* by name
Ascii ==
  << " ", "!", "quote", "#", "$", "%", "&", "'", "(", ")", "*", "+", ",", "-", ".", "/",
     "0", "1", "2", "3", "4", "5", "6", "7", "8", "9", ":", ";", "<", "=", ">", "?",
     "@", "A", "B", "C", "D", "E", "F", "G", "H", "I", "J", "K", "L", "M", "N", "O",
     "P", "Q", "R", "S", "T", "U", "V", "W", "X", "Y", "Z", "[", "backslash", "]", "^", "_",
     "backtick", "a", "b", "c", "d", "e", "f", "g", "h", "i", "j", "k", "l", "m", "n", "o",
     "p", "q", "r", "s", "t", "u", "v", "w", "x", "y", "z", "{", "|", "}", "~" >>

\* ord(c)
Ord(c) == 31 + (CHOOSE i \in 1..Len(Ascii) : Ascii[i] = c)

\* a < b for two str: by code point, a proper prefix first
StrLess(a, b) ==
  \E k \in 1..(Len(a) + 1) :
    /\ k <= Len(b)
    /\ \A j \in 1..(k - 1) : a[j] = b[j]
    /\ (k = Len(a) + 1 \/ Ord(a[k]) < Ord(b[k]))

\* sorted(items): a stable sort; before[i][j] says that the key of items[i]
\* is smaller than the key of items[j]. An item goes behind the items whose
\* key is smaller and the ones of equal key that stood before it.
Sorted(items, before) ==
  LET n == Len(items)
      rank(i) == 1 + Cardinality({j \in 1..n :
                       \/ before[j][i]
                       \/ (~before[i][j] /\ j < i)})
  IN [r \in 1..n |-> items[CHOOSE i \in 1..n : rank(i) = r]]

----------------------------------------------------------------------------
(* format_announcement_summary and generate_daily_report *)

\* lines 318-329: the phrase chosen by the first substring the lower-cased
\* title holds
ActionPhrase(title) ==
  LET t == lower(title)
  IN IF Contains(<<"p","r","o","d","u","c","t","i","o","n">>, t) THEN <<"r","e","p","o","r","t","e","d"," ","p","r","o","d","u","c","t","i","o","n"," ">>
     ELSE IF Contains(<<"d","r","i","l","l","i","n","g">>, t) THEN <<"a","n","n","o","u","n","c","e","d"," ","d","r","i","l","l","i","n","g"," ">>
     ELSE IF Contains(<<"r","e","s","o","u","r","c","e">>, t) THEN <<"u","p","d","a","t","e","d"," ","r","e","s","o","u","r","c","e"," ">>
     ELSE IF Contains(<<"a","p","p","r","o","v","a","l">>, t) THEN <<"r","e","c","e","i","v","e","d"," ","a","p","p","r","o","v","a","l"," ">>
     ELSE IF Contains(<<"a","c","q","u","i","s","i","t","i","o","n">>, t) THEN <<"a","n","n","o","u","n","c","e","d"," ","a","c","q","u","i","s","i","t","i","o","n"," ">>
     ELSE <<"a","n","n","o","u","n","c","e","d"," ">>

\* the parts of the line format_announcement_summary returns for one
\* announcement: name, phrase, title and code
format_announcement_summary(announcement) ==
  [ company_name |-> announcement.company_name.text,
    action |-> ActionPhrase(announcement.title.text),
    title |-> announcement.title.text,
    company_code |-> announcement.company_code.text ]

RECURSIVE SectionLatestFirst(_, _)
\* Section with each line put in front of the section's earlier lines
SectionLatestFirst(anns, sentiment) ==
  IF anns = <<>> THEN <<>>
  ELSE SectionLatestFirst(Tail(anns), sentiment)
       \o (IF Head(anns).sentiment = sentiment
           THEN << format_announcement_summary(Head(anns)) >> ELSE <<>>)

RECURSIVE Section(_, _)
\* the lines of [a for a in announcements if a.sentiment == sentiment]
Section(anns, sentiment) ==
  IF anns = <<>> THEN <<>>
  ELSE (IF Head(anns).sentiment = sentiment
        THEN << format_announcement_summary(Head(anns)) >> ELSE <<>>)
       \o Section(Tail(anns), sentiment)

RECURSIVE FirstSeen(_, _)
\* the keys of a dict filled in the order of `items`
FirstSeen(items, seen) ==
  IF items = <<>> THEN <<>>
  ELSE IF Head(items) \in seen THEN FirstSeen(Tail(items), seen)
  ELSE << Head(items) >> \o FirstSeen(Tail(items), seen \cup {Head(items)})

\* lines 405-409: the codes of the dict `companies`, in insertion order
CompanyCodes(anns) == FirstSeen([i \in 1..Len(anns) |-> anns[i].company_code], {})

\* CodeBefore for companies.items() left unsorted: no code goes before
\* another, so that the codes stay in insertion order
CodeUnordered(c, d) == FALSE

\* line 412: the order sorted() puts two codes in
CodeBefore(c, d) == StrLess(c.text, d.text)

\* lines 412-416: one line of the company breakdown
CompanyLine(anns, company_code) ==
  LET company_info == get_company_info(company_code)
      mine == {i \in 1..Len(anns) : anns[i].company_code = company_code}
      first == anns[CHOOSE i \in mine : \A j \in mine : i <= j]
  IN [ company_name |-> IF company_info # None THEN company_info.name
                        ELSE first.company_name.text,
       company_code |-> company_code.text,
       sector |-> IF company_info # None THEN company_info.sector ELSE <<"M","i","n","i","n","g">>,
       count |-> Cardinality(mine) ]

CompanyBreakdown(anns) ==
  LET keys == CompanyCodes(anns)
      codes == Sorted(keys, [i \in 1..Len(keys) |->
                               [j \in 1..Len(keys) |-> CodeBefore(keys[i], keys[j])]])
  IN [i \in 1..Len(codes) |-> CompanyLine(anns, codes[i])]

\* lines 426-427
SectorOf(announcement) ==
  LET company_info == get_company_info(announcement.company_code)
  IN IF company_info # None THEN company_info.sector ELSE <<"O","t","h","e","r">>

\* SectorSummary with reverse=True taken as: sort by ascending count, then
\* turn the list round
SectorSummaryTurnedRound(anns) ==
  LET of == [i \in 1..Len(anns) |-> SectorOf(anns[i])]
      names == FirstSeen(of, {})
      items == [k \in 1..Len(names) |->
                  [sector |-> names[k],
                   count |-> Cardinality({i \in 1..Len(anns) : of[i] = names[k]})]]
      smaller == [i \in 1..Len(items) |->
                   [j \in 1..Len(items) |-> items[i].count < items[j].count]]
      ascending == Sorted(items, smaller)
  IN [k \in 1..Len(ascending) |-> ascending[Len(ascending) + 1 - k]]

\* lines 424-433: the sectors in insertion order with their counts, sorted
\* by count, the larger first
SectorSummary(anns) ==
  LET of == [i \in 1..Len(anns) |-> SectorOf(anns[i])]
      names == FirstSeen(of, {})
      items == [k \in 1..Len(names) |->
                  [sector |-> names[k],
                   count |-> Cardinality({i \in 1..Len(anns) : of[i] = names[k]})]]
      larger == [i \in 1..Len(items) |->
                  [j \in 1..Len(items) |-> items[i].count > items[j].count]]
  IN Sorted(items, larger)

\* lines 384-388, 391-395, 398-402: a group that is not empty is rendered
\* as its heading followed by one line for each of its announcements
RenderSection(lines, sentiment) ==
  IF lines = <<>> THEN <<>>
  ELSE << [kind |-> "heading", sentiment |-> sentiment] >>
       \o [i \in 1..Len(lines) |-> [kind |-> "line", summary |-> lines[i]]]

\* lines 368-402: what the report holds under "## Key Announcements"
KeyAnnouncements(anns) ==
  RenderSection(Section(anns, "positive"), "positive")
  \o RenderSection(Section(anns, "neutral"), "neutral")
  \o RenderSection(Section(anns, "negative"), "negative")

generate_daily_report(anns) ==
  IF anns = <<>> THEN [kind |-> "empty", monitoring |-> Len(mining_companies)]
  ELSE [ kind |-> "full",
         found |-> Len(anns),
         positive |-> Section(anns, "positive"),
         neutral |-> Section(anns, "neutral"),
         negative |-> Section(anns, "negative"),
         key_announcements |-> KeyAnnouncements(anns),
         companies |-> CompanyBreakdown(anns),
         sectors |-> SectorSummary(anns),
         monitoring |-> Len(mining_companies) ]

----------------------------------------------------------------------------
(* send_email_report *)

\* what a call of send_email_report comes to: "skipped" when the email
\* configuration is incomplete (logged, returns), else the SMTP dialogue
\* succeeds ("sent") or raises ("failed")
SendOutcomes == IF email_configured THEN {"sent", "failed"} ELSE {"skipped"}

\* send_email_report without the `raise` of line 478
send_email_report_swallows(outcome) == FALSE

\* lines 476-478: the exception is logged and raised again
send_email_report_raises(outcome) == outcome = "failed"

----------------------------------------------------------------------------
(* run_daily_scan *)

Init ==
  /\ \E file \in CompanyFiles : mining_companies = load_mining_companies(file)
  /\ email_configured \in BOOLEAN
  /\ announcements = <<>>
  /\ raw_announcements = <<>>
  /\ idx = 1
  /\ analyzed = None
  /\ analyzed_announcements = <<>>
  /\ skipped = 0
  /\ report = None
  /\ report_file = None
  /\ emails = <<>>
  /\ exc = "none"
  /\ raised = "none"
  /\ pc = "collect"

\* a scraper contributes one more record (announcements.extend, lines 155-164)
Scrape ==
  /\ pc = "collect"
  /\ Len(announcements) < MaxBatch
  /\ \E r \in RecordPool : announcements' = Append(announcements, r)
  /\ UNCHANGED << mining_companies, email_configured, raw_announcements, idx, analyzed,
                  analyzed_announcements, skipped, report, report_file, emails, exc,
                  raised, pc >>

\* lines 166-175 and 486: the deduplication, whose exception reaches the
\* except clause of run_daily_scan
Deduplicate ==
  /\ pc = "collect"
  /\ IF dedupe_raises(announcements)
     THEN /\ exc' = "AttributeError"
          /\ pc' = "except"
          /\ UNCHANGED raw_announcements
     ELSE /\ raw_announcements' = dedupe(announcements)
          /\ pc' = "analyze"
          /\ UNCHANGED exc
  /\ UNCHANGED << mining_companies, email_configured, announcements, idx, analyzed,
                  analyzed_announcements, skipped, report, report_file, emails, raised >>

\* lines 491-498: one pass of the for loop
Analyze ==
  /\ pc = "analyze"
  /\ idx <= Len(raw_announcements)
  /\ LET raw_announcement == raw_announcements[idx]
     IN IF analyze_raises(raw_announcement)
        THEN /\ skipped' = skipped + 1
             /\ UNCHANGED << analyzed, analyzed_announcements >>
        ELSE /\ analyzed' = analyze_announcement(raw_announcement)
             /\ analyzed_announcements' =
                  IF PassesGate(analyzed')
                  THEN Append(analyzed_announcements, analyzed')
                  ELSE analyzed_announcements
             /\ UNCHANGED skipped
  /\ idx' = idx + 1
  /\ UNCHANGED << mining_companies, email_configured, announcements, raw_announcements,
                  report, report_file, emails, exc, raised, pc >>

\* line 503
GenerateReport ==
  /\ pc = "analyze"
  /\ idx > Len(raw_announcements)
  /\ report' = generate_daily_report(analyzed_announcements)
  /\ pc' = "save"
  /\ UNCHANGED << mining_companies, email_configured, announcements, raw_announcements,
                  idx, analyzed, analyzed_announcements, skipped, report_file, emails,
                  exc, raised >>

\* lines 506-510: the report is written, or makedirs/open/write raises OSError
SaveReport ==
  /\ pc = "save"
  /\ \/ /\ report_file' = report
        /\ pc' = "send"
        /\ UNCHANGED exc
     \/ /\ exc' = "OSError"
        /\ pc' = "except"
        /\ UNCHANGED report_file
  /\ UNCHANGED << mining_companies, email_configured, announcements, raw_announcements,
                  idx, analyzed, analyzed_announcements, skipped, report, emails, raised >>

\* line 518: send_email_report(report), inside the try of run_daily_scan
SendReport ==
  /\ pc = "send"
  /\ \E outcome \in SendOutcomes :
       /\ emails' = Append(emails, [kind |-> "report", result |-> outcome])
       /\ IF send_email_report_raises(outcome)
          THEN exc' = "SMTPException" /\ pc' = "except"
          ELSE exc' = exc /\ pc' = "done"
  /\ UNCHANGED << mining_companies, email_configured, announcements, raw_announcements,
                  idx, analyzed, analyzed_announcements, skipped, report, report_file,
                  raised >>

\* Propagated without the inner try: a failing notification takes the place
\* of the exception being handled
PropagatedNotificationFailure(e, outcome) ==
  IF outcome = "failed" THEN "SMTPException" ELSE e

\* the exception that the bare `raise` of line 538 raises, after the
\* notification of lines 534-537 came to `outcome`
Propagated(e, outcome) == e

\* lines 522-537: the error report is sent; a failure of that is swallowed
NotifyError ==
  /\ pc = "except"
  /\ \E outcome \in SendOutcomes :
       /\ emails' = Append(emails, [kind |-> "error", result |-> outcome])
       /\ exc' = Propagated(exc, outcome)
  /\ pc' = "reraise"
  /\ UNCHANGED << mining_companies, email_configured, announcements, raw_announcements,
                  idx, analyzed, analyzed_announcements, skipped, report, report_file,
                  raised >>

\* line 538
Reraise ==
  /\ pc = "reraise"
  /\ raised' = exc
  /\ pc' = "raised"
  /\ UNCHANGED << mining_companies, email_configured, announcements, raw_announcements,
                  idx, analyzed, analyzed_announcements, skipped, report, report_file,
                  emails, exc >>

Next ==
  \/ Scrape
  \/ Deduplicate
  \/ Analyze
  \/ GenerateReport
  \/ SaveReport
  \/ SendReport
  \/ NotifyError
  \/ Reraise

Spec == Init /\ [][Next]_vars

----------------------------------------------------------------------------
(* Deduplication: properties *)

\* the identity of a record as a pair of strings, a missing field being ''
Pair(ann) == << get(ann, "company_code", PyStr(<<>>)), get(ann, "title", PyStr(<<>>)) >>

\* the state in which get_asx_announcements has just returned
Deduplicated == pc = "analyze" /\ idx = 1

\* the positions of the records of `anns` with the pair of anns[i]
SamePair(anns, i) == {j \in 1..Len(anns) : Pair(anns[j]) = Pair(anns[i])}

\* the positions of `unique` that hold a record with the pair of `ann`
Kept(unique, ann) == {k \in 1..Len(unique) : Pair(unique[k]) = Pair(ann)}

\* `sub` is `whole` with some of its members left out, the order kept
IsSubsequence(sub, whole) ==
  \E keep \in SUBSET (1..Len(whole)) :
    /\ Cardinality(keep) = Len(sub)
    /\ \A k \in 1..Len(sub) :
         \E i \in keep : /\ Cardinality({j \in keep : j <= i}) = k
                         /\ whole[i] = sub[k]

\* C1: of the records that share one (company_code, title) pair exactly one
\* is returned, the first of them in input order, and the records returned
\* keep their input order.
C1_FirstOfEachPairSurvives ==
  Deduplicated =>
    /\ \A i \in 1..Len(announcements) :
         LET same == SamePair(announcements, i)
             first == CHOOSE j \in same : \A l \in same : j <= l
         IN Cardinality(same) >= 2 =>
              /\ Cardinality(Kept(raw_announcements, announcements[i])) = 1
              /\ \A k \in Kept(raw_announcements, announcements[i]) :
                   raw_announcements[k] = announcements[first]
    /\ IsSubsequence(raw_announcements, announcements)

\* C2: a record is dropped only if an earlier record has an equal
\* company_code and an equal title: the first record of every pair is
\* returned.
C2_DroppedOnlyForEqualPair ==
  Deduplicated =>
    \A i \in 1..Len(announcements) :
      (\A j \in 1..(i - 1) : Pair(announcements[j]) # Pair(announcements[i]))
        => \E k \in 1..Len(raw_announcements) : raw_announcements[k] = announcements[i]

\* C3: deduplicating what the deduplication returned changes nothing.
C3_DedupeIdempotent ==
  Deduplicated => dedupe(raw_announcements) = raw_announcements

\* a run in which the deduplication dropped a record and kept two
C3_Witness ==
  /\ Deduplicated
  /\ Len(raw_announcements) = 2
  /\ Len(announcements) = 3

----------------------------------------------------------------------------
(* Classification and quality gate: properties *)

\* the for loop has just analysed raw_announcements[idx - 1] without an
\* exception, and `analyzed` is what analyze_announcement returned for it
JustAnalyzed ==
  /\ pc = "analyze"
  /\ idx > 1
  /\ ~analyze_raises(raw_announcements[idx - 1])

\* how many words of the list occur in the text
Occurring(words, text) ==
  Cardinality({w \in {words[i] : i \in 1..Len(words)} : Contains(w, text)})

\* C4: with P and N the numbers of positive and negative list words that
\* occur in the lower-cased title, the sentiment is positive iff P > N,
\* negative iff N > P and neutral iff P = N, whatever the other fields hold.
C4_SentimentRule ==
  JustAnalyzed =>
    LET title_lower == lower(get(raw_announcements[idx - 1], "title", PyStr(<<>>)).text)
        P == Occurring(positive_keywords, title_lower)
        N == Occurring(negative_keywords, title_lower)
    IN /\ analyzed.sentiment = "positive" <=> P > N
       /\ analyzed.sentiment = "negative" <=> N > P
       /\ analyzed.sentiment = "neutral" <=> P = N

\* a title with as many positive as negative words, and not none of them,
\* has been classified
C4_Witness ==
  /\ JustAnalyzed
  /\ analyzed.sentiment = "neutral"
  /\ Score(positive_keywords, lower(analyzed.title.text)) = 1
  /\ Score(negative_keywords, lower(analyzed.title.text)) = 1

\* C5 as stated: a record without content, or with the empty string as
\* content, gets its title as content; any other content is carried over.
C5_EmptyContentDefaultsToTitle ==
  JustAnalyzed =>
    LET raw == raw_announcements[idx - 1].fields
        empty == "content" \notin DOMAIN raw \/ raw.content = PyStr(<<>>)
    IN /\ empty => analyzed.content = analyzed.title
       /\ ~empty => analyzed.content = raw.content

\* C5 as the code has it: a record WITHOUT a content field gets its title as
\* content; a content that is present is carried over, the empty string too.
C5_AbsentContentDefaultsToTitle ==
  JustAnalyzed =>
    LET raw == raw_announcements[idx - 1].fields
    IN /\ "content" \notin DOMAIN raw => analyzed.content = analyzed.title
       /\ "content" \in DOMAIN raw => analyzed.content = raw.content

\* a record with a title and the empty string as content has been analysed
C5_Witness ==
  /\ JustAnalyzed
  /\ "content" \in DOMAIN raw_announcements[idx - 1].fields
  /\ analyzed.content = PyStr(<<>>)
  /\ analyzed.title # PyStr(<<>>)

\* the positions of raw_announcements whose title is a str of at least the
\* minimum length
LongEnough ==
  {i \in 1..Len(raw_announcements) :
     LET title == get(raw_announcements[i], "title", PyStr(<<>>))
     IN title.isstr /\ Len(title.text) >= min_announcement_length}

\* C6: the report is built from exactly the announcements whose title has at
\* least min_announcement_length characters, in the order of the
\* deduplicated records.
C6_QualityGate ==
  pc = "save" =>
    /\ Len(analyzed_announcements) = Cardinality(LongEnough)
    /\ \A k \in 1..Len(analyzed_announcements) :
         \E i \in LongEnough :
           /\ Cardinality({j \in LongEnough : j <= i}) = k
           /\ analyzed_announcements[k].title = raw_announcements[i].fields.title
           /\ analyzed_announcements[k].time = get(raw_announcements[i], "time", PyStr(<<>>))
           /\ analyzed_announcements[k].url = get(raw_announcements[i], "url", PyStr(<<>>))
    /\ IF LongEnough = {} THEN report.kind = "empty"
       ELSE report.kind = "full" /\ report.found = Cardinality(LongEnough)

\* a title of exactly the minimum length went into the report and a title
\* one character shorter, analysed before it, did not
C6_Witness ==
  /\ pc = "save"
  /\ Len(raw_announcements) = 2
  /\ Len(get(raw_announcements[1], "title", PyStr(<<>>)).text) = min_announcement_length - 1
  /\ Len(analyzed_announcements) = 1
  /\ Len(analyzed_announcements[1].title.text) = min_announcement_length

\* a scraped record of unexpected shape: no mapping, or a title that is no str
Malformed(r) == ~r.ismapping \/ ~get(r, "title", PyStr(<<>>)).isstr

\* C7: a malformed record in the batch is skipped: the run does not fail
\* because of it, and every well-formed record that passes the quality gate
\* is reported.
C7_MalformedRecordIsSkipped ==
  (\E i \in 1..Len(announcements) : Malformed(announcements[i])) =>
    /\ exc # "AttributeError"
    /\ raised # "AttributeError"
    /\ pc \in {"save", "send", "done"} =>
         Len(analyzed_announcements) = Cardinality(LongEnough)

----------------------------------------------------------------------------
(* The company table: properties *)

\* the positions of mining_companies with the code of entry i
SameCode(i) ==
  {j \in 1..Len(mining_companies) : mining_companies[j].code = mining_companies[i].code}

AfterConstruction == pc = "collect" /\ announcements = <<>>

\* C8 as stated: of several entries with one code the lookup returns the one
\* loaded last, so that the company breakdown of the report shows the name and
\* sector of an entry of mining_companies.json rather than the static entry
\* of the same code.
C8_LastLoadedWins ==
  (pc = "save" /\ report.kind = "full") =>
    \A k \in 1..Len(report.companies) :
      \A i \in 1..Len(mining_companies) :
        (mining_companies[i].code = report.companies[k].company_code
         /\ \A j \in SameCode(i) : j <= i)
          => /\ report.companies[k].company_name = mining_companies[i].name
             /\ report.companies[k].sector = mining_companies[i].sector

\* C8 as the code has it: of several entries with one code the lookup
\* returns the one loaded FIRST, so that an entry of the static table hides
\* an entry of mining_companies.json with the same code; the company
\* breakdown of the report shows the name and sector of that first entry.
C8_FirstLoadedWins ==
  /\ AfterConstruction =>
       \A i \in 1..Len(mining_companies) :
         get_company_info(PyStr(mining_companies[i].code))
           = mining_companies[CHOOSE j \in SameCode(i) : \A l \in SameCode(i) : j <= l]
  /\ (pc = "save" /\ report.kind = "full") =>
       \A k \in 1..Len(report.companies) :
         \A i \in 1..Len(mining_companies) :
           (mining_companies[i].code = report.companies[k].company_code
            /\ \A j \in SameCode(i) : i <= j)
             => /\ report.companies[k].company_name = mining_companies[i].name
                /\ report.companies[k].sector = mining_companies[i].sector

\* a report whose company breakdown holds a code that mining_companies has
\* two entries with different names for
C8_Witness ==
  /\ pc = "save"
  /\ report.kind = "full"
  /\ \E k \in 1..Len(report.companies) :
       \E i, j \in 1..Len(mining_companies) :
         /\ i < j
         /\ mining_companies[i].code = report.companies[k].company_code
         /\ mining_companies[j].code = report.companies[k].company_code
         /\ mining_companies[i].name # mining_companies[j].name

----------------------------------------------------------------------------
(* run_daily_scan: properties of the error handling *)

\* send_email_report(report) has raised
DeliveryFailed ==
  \E k \in 1..Len(emails) : emails[k] = [kind |-> "report", result |-> "failed"]

\* the error report has been handed to send_email_report
NotificationAttempted == \E k \in 1..Len(emails) : emails[k].kind = "error"

\* C9 as stated: once the report is computed and written, a failing
\* send_email_report does not make run_daily_scan end with an exception.
C9_DeliveryFailureNotFatal ==
  (report_file # None /\ report_file = report /\ DeliveryFailed) => pc # "raised"

\* C9 as the code has it: a failing send_email_report raises into the except
\* clause of run_daily_scan, which attempts the error notification and raises
\* the delivery failure again; the report written before stays written; the
\* run ends normally only if the report was sent or the sending was skipped
\* for an incomplete email configuration.
C9_DeliveryFailureIsRaised ==
  /\ DeliveryFailed =>
       /\ pc \in {"except", "reraise", "raised"}
       /\ exc = "SMTPException"
       /\ report_file # None /\ report_file = report
       /\ pc = "raised" => (raised = "SMTPException" /\ NotificationAttempted)
  /\ pc = "done" =>
       /\ report_file # None /\ report_file = report
       /\ emails \in { << [kind |-> "report", result |-> "sent"] >>,
                       << [kind |-> "report", result |-> "skipped"] >> }

\* the report was written, its sending failed, and the run has ended with
\* the exception
C9_Witness ==
  /\ pc = "raised"
  /\ report_file = report
  /\ report.kind = "full"
  /\ DeliveryFailed

\* the failure that sent run_daily_scan into its except clause, told from
\* what the run has left behind
OriginalFailure ==
  IF dedupe_raises(announcements) THEN "AttributeError"
  ELSE IF report_file = None THEN "OSError"
  ELSE "SMTPException"

\* C10: a failure of the run reaches the caller only after the error
\* notification has been attempted, and what reaches the caller is the
\* original failure, also when the notification failed.
C10_NotifyThenRaiseOriginal ==
  /\ pc # "raised" => raised = "none"
  /\ pc = "except" => (~NotificationAttempted /\ exc = OriginalFailure)
  /\ pc \in {"reraise", "raised"} =>
       /\ emails[Len(emails)].kind = "error"
       /\ Cardinality({k \in 1..Len(emails) : emails[k].kind = "error"}) = 1
  /\ pc = "raised" => raised = OriginalFailure

\* the report could not be written, the notification of that failed too, and
\* the caller got the OSError
C10_Witness ==
  /\ pc = "raised"
  /\ raised = "OSError"
  /\ emails = << [kind |-> "error", result |-> "failed"] >>

----------------------------------------------------------------------------
(* The report: properties *)

\* a report of at least one announcement has been generated from
\* analyzed_announcements
ReportGenerated == pc = "save" /\ report.kind = "full"

\* the place of a sentiment in the fixed order of the sections
SectionRank(sentiment) ==
  CASE sentiment = "positive" -> 1 [] sentiment = "neutral" -> 2 [] sentiment = "negative" -> 3

\* the positions of the headings among the rendered key announcements
Headings == {k \in 1..Len(report.key_announcements) :
               report.key_announcements[k].kind = "heading"}

\* the positions of the summary lines that stand under the heading of
\* `sentiment`: the nearest heading above them is that one
LinesUnder(sentiment) ==
  {k \in 1..Len(report.key_announcements) :
     /\ report.key_announcements[k].kind = "line"
     /\ \E h \in Headings :
          /\ h < k
          /\ report.key_announcements[h].sentiment = sentiment
          /\ \A g \in Headings : g < k => g <= h}

\* the positions of the input announcements of `sentiment`
InputOf(sentiment) ==
  {i \in 1..Len(analyzed_announcements) : analyzed_announcements[i].sentiment = sentiment}

\* C11: in the report of a non-empty input, a section is rendered exactly
\* for the sentiments some input announcement has, the sections stand in the
\* order positive, neutral, negative, every input announcement has exactly
\* one summary line and that in the section of its sentiment, and the lines
\* of a section stand in the input order of their announcements.
C11_SentimentSections ==
  ReportGenerated =>
    /\ \A s \in {"positive", "neutral", "negative"} :
         (\E h \in Headings : report.key_announcements[h].sentiment = s)
           <=> InputOf(s) # {}
    /\ \A g, h \in Headings :
         g < h => SectionRank(report.key_announcements[g].sentiment)
                    < SectionRank(report.key_announcements[h].sentiment)
    /\ Len(report.key_announcements)
         = Cardinality(Headings) + Len(analyzed_announcements)
    /\ \A s \in {"positive", "neutral", "negative"} :
         /\ Cardinality(LinesUnder(s)) = Cardinality(InputOf(s))
         /\ \A k \in LinesUnder(s) : \A i \in InputOf(s) :
              Cardinality({l \in LinesUnder(s) : l < k})
                = Cardinality({j \in InputOf(s) : j < i})
              => report.key_announcements[k].summary
                   = format_announcement_summary(analyzed_announcements[i])

\* a report of three announcements: a negative one first, then two positive
\* ones with different summary lines, and no neutral one
C11_Witness ==
  /\ ReportGenerated
  /\ Len(analyzed_announcements) = 3
  /\ analyzed_announcements[1].sentiment = "negative"
  /\ analyzed_announcements[2].sentiment = "positive"
  /\ analyzed_announcements[3].sentiment = "positive"
  /\ format_announcement_summary(analyzed_announcements[2])
       # format_announcement_summary(analyzed_announcements[3])

\* the codes of the input announcements, as text
InputCodes ==
  {analyzed_announcements[i].company_code.text : i \in 1..Len(analyzed_announcements)}

\* the positions of the input announcements with the code `code`
InputWithCode(code) ==
  {i \in 1..Len(analyzed_announcements) :
     analyzed_announcements[i].company_code.text = code}

\* the positions of the entries mining_companies has for the code `code`
Tracked(code) == {i \in 1..Len(mining_companies) : mining_companies[i].code = code}

\* C12: the company breakdown of the report of a non-empty input has
\* exactly one line for each distinct code of the input, the lines stand in
\* ascending order of the code, a line's count is the number of input
\* announcements with its code, and its name and sector are those of an entry
\* of the registry when the registry has the code, else the name the code's
\* (first) announcement carries and the label "Mining".
C12_CompanyBreakdown ==
  ReportGenerated =>
    /\ {report.companies[k].company_code : k \in 1..Len(report.companies)} = InputCodes
    /\ Len(report.companies) = Cardinality(InputCodes)
    /\ \A k, l \in 1..Len(report.companies) :
         k < l => StrLess(report.companies[k].company_code, report.companies[l].company_code)
    /\ \A k \in 1..Len(report.companies) :
         LET line == report.companies[k]
             mine == InputWithCode(line.company_code)
         IN /\ line.count = Cardinality(mine)
            /\ Tracked(line.company_code) # {} =>
                 \E i \in Tracked(line.company_code) :
                   /\ line.company_name = mining_companies[i].name
                   /\ line.sector = mining_companies[i].sector
            /\ Tracked(line.company_code) = {} =>
                 /\ \E i \in mine :
                      /\ \A j \in mine : i <= j
                      /\ line.company_name = analyzed_announcements[i].company_name.text
                 /\ line.sector = <<"M", "i", "n", "i", "n", "g">>

\* a report of three announcements: the first of a code the registry does
\* not have, the other two of one code that the registry has and that sorts
\* before the first one's
C12_Witness ==
  /\ ReportGenerated
  /\ Len(analyzed_announcements) = 3
  /\ Tracked(analyzed_announcements[1].company_code.text) = {}
  /\ Tracked(analyzed_announcements[2].company_code.text) # {}
  /\ analyzed_announcements[2].company_code = analyzed_announcements[3].company_code
  /\ StrLess(analyzed_announcements[2].company_code.text,
             analyzed_announcements[1].company_code.text)

\* the sector input announcement i is tallied under: the sector of the
\* first-loaded entry mining_companies has for its code, "Other" when it has
\* none
ResolvedSector(i) ==
  LET entries == Tracked(analyzed_announcements[i].company_code.text)
  IN IF entries = {} THEN <<"O", "t", "h", "e", "r">>
     ELSE mining_companies[CHOOSE e \in entries : \A f \in entries : e <= f].sector

\* the positions of the input announcements tallied under `sector`
InputOfSector(sector) ==
  {i \in 1..Len(analyzed_announcements) : ResolvedSector(i) = sector}

\* C13: in the sector summary of the report of a non-empty input every
\* announcement is tallied once, under the sector its code resolves to in
\* the registry ("Other" for a code the registry does not have), the lines
\* stand in non-increasing order of count, and sectors of equal count stand
\* in the order in which the input first shows them.
C13_SectorSummary ==
  ReportGenerated =>
    /\ {report.sectors[k].sector : k \in 1..Len(report.sectors)}
         = {ResolvedSector(i) : i \in 1..Len(analyzed_announcements)}
    /\ \A k, l \in 1..Len(report.sectors) :
         k # l => report.sectors[k].sector # report.sectors[l].sector
    /\ \A k \in 1..Len(report.sectors) :
         report.sectors[k].count = Cardinality(InputOfSector(report.sectors[k].sector))
    /\ \A k, l \in 1..Len(report.sectors) :
         k < l =>
           /\ report.sectors[k].count >= report.sectors[l].count
           /\ report.sectors[k].count = report.sectors[l].count =>
                \E i \in InputOfSector(report.sectors[k].sector) :
                  \A j \in InputOfSector(report.sectors[l].sector) : i < j

\* a report of announcements of two sectors with equal counts, the sector
\* the input shows first being the later one in alphabetical order
C13_Witness ==
  /\ ReportGenerated
  /\ Len(analyzed_announcements) = 2
  /\ Len(report.sectors) = 2
  /\ StrLess(ResolvedSector(2), ResolvedSector(1))

====
